---------------------------- MODULE Spec2Model ----------------------------
(***************************************************************************)
(* Layout engine of the virtual art gallery (src/src/gallery.ts).          *)
(*                                                                         *)
(* Lengths are integers in millimetres (1 m = 1000), so 0.22 m is 220 and  *)
(* the 0.01 m doorway clearance is 10.  Angles are in degrees.  The        *)
(* source computes in IEEE doubles; every coordinate the gallery floor     *)
(* plan produces is a multiple of 0.05 m, and an interpolated slot of an   *)
(* arbitrary segment is rounded down to the millimetre.                    *)
(***************************************************************************)
EXTENDS Integers, Sequences, FiniteSets, TLC

VARIABLES
    pc,        \* position of buildGallery: "walls", "sections", "statues", "hang", "done"
    plan,      \* the addWallX / addWallZ calls buildGallery makes, in order
    wi,        \* index in plan of the next wall call
    segs,      \* const segs: WallSeg[]
    colliders, \* const colliders: RectXZ[]
    sections,  \* const sections
    frames,    \* const frames = [...opts.artworks]
    idx,       \* let idx = 0 (0-based cursor into frames)
    si,        \* position of `for (const seg of segs)` (1-based)
    slot,      \* the `i` of the loop in hangOnSegX / hangOnSegZ
    scene,     \* objects handed to scene.add, in order
    statI,     \* the `i` of the loop in addStatuesAtSectionCenters (0-based)
    statPc,    \* "idle", "loading" (suspended at the await), "finished", "threw"
    load,      \* state of the pending loadStatueOBJ promise: "none", "mtl", "obj", "hung"
    settled    \* how the loads awaited so far settled, "resolved" or "rejected", by section

vars == <<pc, plan, wi, segs, colliders, sections, frames, idx, si, slot,
          scene, statI, statPc, load, settled>>

buildVars  == <<pc, plan, wi, segs, colliders, sections, frames, idx, si, slot>>
statueVars == <<statI, statPc, load, settled>>

-----------------------------------------------------------------------------
(* Bounds of the model *)

\* longest artwork list handed to buildGallery with the gallery floor plan
MaxArt == 92
\* longest artwork list handed to the layout of an arbitrary pair of walls
MaxUnitArt == 5
\* most statue loads the environment lets fail in one run
MaxFail == 2

-----------------------------------------------------------------------------
(* Dimensions, gallery.ts:167-181 *)

H          == 3600
WALL_T     == 220
DOOR_W     == 3000
WALL_GAP   == 200
CAP_MARGIN == 800
SPACING    == 3600
FRAME_W    == 1800
HALF_W     == (FRAME_W * 5) \div 10
\* the literal 0.05 of the corner check and the literal 0.01 of the doorway split
CORNER_TOL == 50
DOOR_CLEAR == 10

R_ATRIUM == [x0 |-> -16000, x1 |->  16000, z0 |-> -10000, z1 |-> 10000]
R_NORTH  == [x0 |-> -14000, x1 |->  14000, z0 |->  10000, z1 |-> 24000]
R_EAST   == [x0 |->  16000, x1 |->  30000, z0 |->  -8000, z1 |->  8000]
R_WEST   == [x0 |-> -30000, x1 |-> -16000, z0 |->  -8000, z1 |->  8000]

Abs(n) == IF n < 0 THEN -n ELSE n

-----------------------------------------------------------------------------
(* Wall Segment Builder: addWallX / addWallZ *)

\* A call of addWallX(z, x0, x1, normalToward, leaveDoorAt?) or of
\* addWallZ(x, z0, z1, normalToward, leaveDoorAt?).  c is the fixed coordinate,
\* lo..hi the span, leaveDoorAt is <<>> when the argument is omitted.  room and
\* divider repeat the comments of the call sites.
Call(fn, c, lo, hi, n, door, room, divider) ==
    [fn |-> fn, c |-> c, lo |-> lo, hi |-> hi, normalToward |-> n,
     leaveDoorAt |-> door, room |-> room, divider |-> divider]

\* an addWallX whose collider straddles the wall line z instead of lying on the
\* side the normal points to
WallXColliderOnLine(z, x0, x1, normalToward) ==
    LET len == x1 - x0
        cx  == (x0 + x1) \div 2
    IN [mesh |-> [type |-> "wall", x |-> cx, y |-> H \div 2,
                  z |-> z + (WALL_T \div 2) * normalToward],
        collider |-> [minX |-> cx - len \div 2,
                      maxX |-> cx + len \div 2,
                      minZ |-> z - WALL_T \div 2,
                      maxZ |-> z + WALL_T \div 2],
        seg |-> [kind |-> "X", z |-> z + normalToward * (WALL_T \div 2),
                 x0 |-> x0, x1 |-> x1, nZ |-> normalToward]]

\* the body of addWallX after the doorway branch: mesh, collider, segment
WallX(z, x0, x1, normalToward) ==
    LET len == x1 - x0
        cx  == (x0 + x1) \div 2
    IN [mesh |-> [type |-> "wall", x |-> cx, y |-> H \div 2,
                  z |-> z + (WALL_T \div 2) * normalToward],
        collider |-> [minX |-> cx - len \div 2,
                      maxX |-> cx + len \div 2,
                      minZ |-> z + (IF normalToward > 0 THEN 0 ELSE -WALL_T),
                      maxZ |-> z + (IF normalToward > 0 THEN WALL_T ELSE 0)],
        seg |-> [kind |-> "X", z |-> z + normalToward * (WALL_T \div 2),
                 x0 |-> x0, x1 |-> x1, nZ |-> normalToward]]

\* the body of addWallZ after the doorway branch
WallZ(x, z0, z1, normalToward) ==
    LET len == z1 - z0
        cz  == (z0 + z1) \div 2
    IN [mesh |-> [type |-> "wall", x |-> x + (WALL_T \div 2) * normalToward,
                  y |-> H \div 2, z |-> cz],
        collider |-> [minX |-> x + (IF normalToward > 0 THEN 0 ELSE -WALL_T),
                      maxX |-> x + (IF normalToward > 0 THEN WALL_T ELSE 0),
                      minZ |-> cz - len \div 2,
                      maxZ |-> cz + len \div 2],
        seg |-> [kind |-> "Z", x |-> x + normalToward * (WALL_T \div 2),
                 z0 |-> z0, z1 |-> z1, nX |-> normalToward]]


\* a doorway split without the 0.01 clearance on the low side
LowFlankNoClear(lo, leaveDoorAt) == leaveDoorAt - DOOR_W \div 2 > lo

\* a doorway split without the 0.01 clearance on the high side
HighFlankNoClear(hi, leaveDoorAt) == hi > leaveDoorAt + DOOR_W \div 2

\* does the doorway split emit the flank on the low side / on the high side
LowFlank(lo, leaveDoorAt)  == leaveDoorAt - DOOR_W \div 2 > lo + DOOR_CLEAR
HighFlank(hi, leaveDoorAt) == hi > leaveDoorAt + DOOR_W \div 2 + DOOR_CLEAR

\* the spans for which a call ends up building a wall: the span itself without
\* a doorway, else the flanks the split emits (the recursive calls)
Spans(call) ==
    IF call.leaveDoorAt = <<>>
    THEN << <<call.lo, call.hi>> >>
    ELSE LET d0 == call.leaveDoorAt[1] - DOOR_W \div 2
             d1 == call.leaveDoorAt[1] + DOOR_W \div 2
         IN (IF LowFlank(call.lo, call.leaveDoorAt[1])
             THEN << <<call.lo, d0>> >> ELSE << >>)
            \o
            (IF HighFlank(call.hi, call.leaveDoorAt[1])
             THEN << <<d1, call.hi>> >> ELSE << >>)

\* the walls one call of addWallX / addWallZ builds, in order
Built(call) ==
    LET sp == Spans(call)
    IN [k \in 1..Len(sp) |->
          IF call.fn = "addWallX"
          THEN WallX(call.c, sp[k][1], sp[k][2], call.normalToward)
          ELSE WallZ(call.c, sp[k][1], sp[k][2], call.normalToward)]


-----------------------------------------------------------------------------
(* The floor plan: the wall calls of buildGallery, gallery.ts:618-657 *)

NoDoor == << >>

GalleryPlan ==
    << \* Atrium outer
       Call("addWallX", R_ATRIUM.z0, R_ATRIUM.x0, R_ATRIUM.x1,  1, <<0>>, "Atrium", FALSE),
       Call("addWallX", R_ATRIUM.z1, R_ATRIUM.x0, R_ATRIUM.x1, -1, <<0>>, "Atrium", FALSE),
       Call("addWallZ", R_ATRIUM.x0, R_ATRIUM.z0, R_ATRIUM.z1,  1, <<0>>, "Atrium", FALSE),
       Call("addWallZ", R_ATRIUM.x1, R_ATRIUM.z0, R_ATRIUM.z1, -1, <<0>>, "Atrium", FALSE),
       \* Atrium internal dividers
       Call("addWallX", (R_ATRIUM.z0 + R_ATRIUM.z1) \div 2 - 2000,
            R_ATRIUM.x0 + 2000, R_ATRIUM.x1 - 2000, 1, NoDoor, "Atrium", TRUE),
       Call("addWallZ", (R_ATRIUM.x0 + R_ATRIUM.x1) \div 2 - 4000,
            R_ATRIUM.z0 + 2000, R_ATRIUM.z1 - 2000, 1, NoDoor, "Atrium", TRUE),
       \* North gallery
       Call("addWallX", R_NORTH.z0, R_NORTH.x0, R_NORTH.x1,  1, <<0>>, "North", FALSE),
       Call("addWallX", R_NORTH.z1, R_NORTH.x0, R_NORTH.x1, -1, NoDoor, "North", FALSE),
       Call("addWallZ", R_NORTH.x0, R_NORTH.z0, R_NORTH.z1,  1, NoDoor, "North", FALSE),
       Call("addWallZ", R_NORTH.x1, R_NORTH.z0, R_NORTH.z1, -1, NoDoor, "North", FALSE),
       Call("addWallX", R_NORTH.z0 + 4000, R_NORTH.x0 + 2000, R_NORTH.x1 - 6000,
            1, NoDoor, "North", TRUE),
       Call("addWallZ", R_NORTH.x1 - 6000, R_NORTH.z0 + 4000, R_NORTH.z1 - 2000,
            -1, NoDoor, "North", TRUE),
       \* East gallery
       Call("addWallZ", R_EAST.x0, R_EAST.z0, R_EAST.z1,  1, <<0>>, "East", FALSE),
       Call("addWallZ", R_EAST.x1, R_EAST.z0, R_EAST.z1, -1, NoDoor, "East", FALSE),
       Call("addWallX", R_EAST.z0, R_EAST.x0, R_EAST.x1,  1, NoDoor, "East", FALSE),
       Call("addWallX", R_EAST.z1, R_EAST.x0, R_EAST.x1, -1, NoDoor, "East", FALSE),
       Call("addWallX", (R_EAST.z0 + R_EAST.z1) \div 2,
            R_EAST.x0 + 2000, R_EAST.x1 - 2000, 1, NoDoor, "East", TRUE),
       \* West gallery
       Call("addWallZ", R_WEST.x1, R_WEST.z0, R_WEST.z1, -1, <<0>>, "West", FALSE),
       Call("addWallZ", R_WEST.x0, R_WEST.z0, R_WEST.z1,  1, NoDoor, "West", FALSE),
       Call("addWallX", R_WEST.z0, R_WEST.x0, R_WEST.x1,  1, NoDoor, "West", FALSE),
       Call("addWallX", R_WEST.z1, R_WEST.x0, R_WEST.x1, -1, NoDoor, "West", FALSE),
       Call("addWallZ", (R_WEST.x0 + R_WEST.x1) \div 2,
            R_WEST.z0 + 2000, R_WEST.z1 - 2000, 1, NoDoor, "West", TRUE),
       Call("addWallX", (R_WEST.z0 + R_WEST.z1) \div 2 - 2000,
            R_WEST.x0 + 2000, R_WEST.x1 - 2000, 1, NoDoor, "West", TRUE) >>

-----------------------------------------------------------------------------
(* Section Partitioner, gallery.ts:670-705 *)

ATR_MID_Z == (R_ATRIUM.z0 + R_ATRIUM.z1) \div 2 - 2000
ATR_MID_X == (R_ATRIUM.x0 + R_ATRIUM.x1) \div 2 - 4000
N_DIV_Z   == R_NORTH.z0 + 4000
N_DIV_X   == R_NORTH.x1 - 6000
E_MID_Z   == ((R_EAST.z0 + R_EAST.z1) * 5) \div 10
W_MID_X   == ((R_WEST.x0 + R_WEST.x1) * 5) \div 10
W_MID_Z   == ((R_WEST.z0 + R_WEST.z1) * 5) \div 10

Rect(x0, x1, z0, z1, room) ==
    [x0 |-> x0, x1 |-> x1, z0 |-> z0, z1 |-> z1, room |-> room]

\* a section list whose upper West rectangle stops at the vertical divider,
\* as the two lower ones do
SectionListWestUpperHalf ==
    << Rect(R_ATRIUM.x0, ATR_MID_X,   R_ATRIUM.z0, ATR_MID_Z,   "Atrium"),
       Rect(ATR_MID_X,   R_ATRIUM.x1, R_ATRIUM.z0, ATR_MID_Z,   "Atrium"),
       Rect(R_ATRIUM.x0, ATR_MID_X,   ATR_MID_Z,   R_ATRIUM.z1, "Atrium"),
       Rect(ATR_MID_X,   R_ATRIUM.x1, ATR_MID_Z,   R_ATRIUM.z1, "Atrium"),
       Rect(R_NORTH.x0,  N_DIV_X,     R_NORTH.z0,  N_DIV_Z,     "North"),
       Rect(N_DIV_X,     R_NORTH.x1,  R_NORTH.z0,  R_NORTH.z1,  "North"),
       Rect(R_NORTH.x0,  N_DIV_X,     N_DIV_Z,     R_NORTH.z1,  "North"),
       Rect(R_EAST.x0,   R_EAST.x1,   R_EAST.z0,   E_MID_Z,     "East"),
       Rect(R_EAST.x0,   R_EAST.x1,   E_MID_Z,     R_EAST.z1,   "East"),
       Rect(R_WEST.x0,   W_MID_X,     R_WEST.z0,   W_MID_Z,     "West"),
       Rect(W_MID_X,     R_WEST.x1,   R_WEST.z0,   W_MID_Z,     "West"),
       Rect(R_WEST.x0,   W_MID_X,     W_MID_Z,     R_WEST.z1,   "West") >>

\* the twelve rectangles pushed to `sections`; room repeats the comment of
\* the push that adds the rectangle
SectionList ==
    << Rect(R_ATRIUM.x0, ATR_MID_X,   R_ATRIUM.z0, ATR_MID_Z,   "Atrium"),
       Rect(ATR_MID_X,   R_ATRIUM.x1, R_ATRIUM.z0, ATR_MID_Z,   "Atrium"),
       Rect(R_ATRIUM.x0, ATR_MID_X,   ATR_MID_Z,   R_ATRIUM.z1, "Atrium"),
       Rect(ATR_MID_X,   R_ATRIUM.x1, ATR_MID_Z,   R_ATRIUM.z1, "Atrium"),
       Rect(R_NORTH.x0,  N_DIV_X,     R_NORTH.z0,  N_DIV_Z,     "North"),
       Rect(N_DIV_X,     R_NORTH.x1,  R_NORTH.z0,  R_NORTH.z1,  "North"),
       Rect(R_NORTH.x0,  N_DIV_X,     N_DIV_Z,     R_NORTH.z1,  "North"),
       Rect(R_EAST.x0,   R_EAST.x1,   R_EAST.z0,   E_MID_Z,     "East"),
       Rect(R_EAST.x0,   R_EAST.x1,   E_MID_Z,     R_EAST.z1,   "East"),
       Rect(R_WEST.x0,   W_MID_X,     R_WEST.z0,   W_MID_Z,     "West"),
       Rect(W_MID_X,     R_WEST.x1,   R_WEST.z0,   W_MID_Z,     "West"),
       Rect(R_WEST.x0,   R_WEST.x1,   W_MID_Z,     R_WEST.z1,   "West") >>

RoomRect(room) ==
    CASE room = "Atrium" -> R_ATRIUM
      [] room = "North"  -> R_NORTH
      [] room = "East"   -> R_EAST
      [] room = "West"   -> R_WEST

Rooms == {"Atrium", "North", "East", "West"}

-----------------------------------------------------------------------------
(* Artwork Layout Engine: hangOnSegX / hangOnSegZ, gallery.ts:727-791 *)

SegLo(seg) == IF seg.kind = "X" THEN seg.x0 ELSE seg.z0
SegHi(seg) == IF seg.kind = "X" THEN seg.x1 ELSE seg.z1


\* a usable length that takes off the whole frame width at either end
UsableFullWidth(seg) == (SegHi(seg) - SegLo(seg)) - 2 * (CAP_MARGIN + FRAME_W)

\* const usable = (seg.x1 - seg.x0) - 2 * (CAP_MARGIN + HALF_W)
Usable(seg) == (SegHi(seg) - SegLo(seg)) - 2 * (CAP_MARGIN + HALF_W)


\* a slot count that divides by the frame width instead of the spacing
CountByFrameWidth(seg) ==
    IF (SegHi(seg) - SegLo(seg)) - 2 * (CAP_MARGIN + HALF_W) <= 0 THEN 0
    ELSE ((SegHi(seg) - SegLo(seg)) - 2 * (CAP_MARGIN + HALF_W)) \div FRAME_W + 1

\* const count = Math.floor(usable / SPACING) + 1, reached only when usable > 0
Count(seg) == IF Usable(seg) <= 0 THEN 0 ELSE Usable(seg) \div SPACING + 1


\* slots spread from the bare segment ends, the margin and half width left out
SlotAlongNoMargin(seg, i) ==
    LET start == SegLo(seg)
        end   == SegHi(seg)
        count == Count(seg)
    IN IF count = 1
       THEN start + (5 * (end - start)) \div 10
       ELSE start + (i * (end - start)) \div (count - 1)

\* startX + t * (endX - startX), with t = 0.5 when count is 1, else i / (count - 1)
SlotAlong(seg, i) ==
    LET start == SegLo(seg) + CAP_MARGIN + HALF_W
        end   == SegHi(seg) - CAP_MARGIN - HALF_W
        count == Count(seg)
    IN IF count = 1
       THEN start + (5 * (end - start)) \div 10
       ELSE start + (i * (end - start)) \div (count - 1)

\* seg.z + (seg.nZ > 0 ? WALL_GAP : -WALL_GAP), resp. with seg.x and seg.nX
SlotAcross(seg) ==
    IF seg.kind = "X"
    THEN seg.z + (IF seg.nZ > 0 THEN WALL_GAP ELSE -WALL_GAP)
    ELSE seg.x + (IF seg.nX > 0 THEN WALL_GAP ELSE -WALL_GAP)


\* a corner check that forgets the half width of the frame
HitsOtherNoHalfWidth(kind, along, across, other) ==
    IF kind = "X"
    THEN /\ other.kind = "Z"
         /\ Abs(other.x - along) < CORNER_TOL
         /\ across >= other.z0 - CORNER_TOL
         /\ across <= other.z1 + CORNER_TOL
    ELSE /\ other.kind = "X"
         /\ Abs(other.z - along) < CORNER_TOL
         /\ across >= other.x0 - CORNER_TOL
         /\ across <= other.x1 + CORNER_TOL

\* one test of the corner collision check: slot (along, across) of a segment
\* of kind `kind` against the segment `other`
HitsOther(kind, along, across, other) ==
    IF kind = "X"
    THEN /\ other.kind = "Z"
         /\ Abs(other.x - along) < HALF_W + CORNER_TOL
         /\ across >= other.z0 - CORNER_TOL
         /\ across <= other.z1 + CORNER_TOL
    ELSE /\ other.kind = "X"
         /\ Abs(other.z - along) < HALF_W + CORNER_TOL
         /\ across >= other.x0 - CORNER_TOL
         /\ across <= other.x1 + CORNER_TOL

\* const hitWall = segs.some(...)
HitWall(all, seg, i) ==
    LET along  == SlotAlong(seg, i)
        across == SlotAcross(seg)
    IN \E k \in 1..Len(all) : HitsOther(seg.kind, along, across, all[k])

\* f.rotation.y, in degrees
FrameRot(seg) ==
    IF seg.kind = "X"
    THEN (IF seg.nZ > 0 THEN 0 ELSE 180)
    ELSE (IF seg.nX > 0 THEN 90 ELSE -90)

\* frame.ts: the texture the picture starts with, a CanvasTexture of an empty
\* canvas
BlankTexture == "blank"

\* frame.ts: the texture fallbackTexture returns, a canvas reading
\* 'IMAGE MISSING'
FallbackTexture == "IMAGE MISSING"

\* the Frame built for frames[cursor] on slot i of seg (segs[s]); seg and slot
\* record where the frame was hung and are not part of the scene object.  The
\* constructor gives the picture the blank texture and requests the image:
\* `image` is the state of that request, `map` is imgMat.map.
NewFrame(meta, s, seg, i) ==
    [type |-> "frame", meta |-> meta,
     x |-> IF seg.kind = "X" THEN SlotAlong(seg, i) ELSE SlotAcross(seg),
     y |-> 1600,
     z |-> IF seg.kind = "X" THEN SlotAcross(seg) ELSE SlotAlong(seg, i),
     rot |-> FrameRot(seg), width |-> FRAME_W, seg |-> s, slot |-> i,
     map |-> BlankTexture, image |-> "pending"]

\* frames[idx] without the increment
SameIdx(cursor) == cursor

\* const meta = frames[idx++]: the cursor after a slot was accepted
NextIdx(cursor) == cursor + 1

-----------------------------------------------------------------------------
(* Statues: makePedestal, makeAbstractStatue, addStatuesAtSectionCenters *)

\* length of PACKS
NumPacks == 7

\* top face of the pedestal above the group's origin: the 0.2 m top slab is
\* centred at 0.6 + 0.1
PedestalTop == (600 + 100) + 200 \div 2

\* width and depth of the pedestal: its widest part, the 0.7 x 0.2 x 0.7 top
PEDESTAL_W == 700

\* the literal 0.8 of `const lift = 0.8 - bbox.min.y`
STATUE_SEAT == 800

SectionCx(r) == ((r.x0 + r.x1) * 5) \div 10
SectionCz(r) == ((r.z0 + r.z1) * 5) \div 10

\* pedestal.position.set(cx, 0, cz) of section i (0-based)
Pedestal(r, i) ==
    [type |-> "pedestal", sec |-> i, x |-> SectionCx(r), y |-> 0,
     z |-> SectionCz(r), top |-> PedestalTop, w |-> PEDESTAL_W]

\* the loaded statue of section i: seated with its lowest point at STATUE_SEAT,
\* yaw of +-0.2 pi by the parity of i
Statue(r, i) ==
    [type |-> "statue", sec |-> i, x |-> SectionCx(r), z |-> SectionCz(r),
     seat |-> STATUE_SEAT, yaw |-> IF i % 2 = 0 THEN 36 ELSE -36,
     pack |-> i % NumPacks]

\* an upright correction that turns a statue lying along Z the wrong way round
UprightFixPlusX(sx, sy, sz) ==
    IF sx >= sy /\ sx >= sz THEN [axis |-> "Z", deg |-> 90]
    ELSE IF sz >= sx /\ sz >= sy THEN [axis |-> "X", deg |-> 90]
    ELSE [axis |-> "none", deg |-> 0]

\* the rotation applied to a loaded statue whose bounding box measures
\* (sx, sy, sz): rotateZ(+PI/2), rotateX(-PI/2) or none
UprightFix(sx, sy, sz) ==
    IF sx >= sy /\ sx >= sz THEN [axis |-> "Z", deg |-> 90]
    ELSE IF sz >= sx /\ sz >= sy THEN [axis |-> "X", deg |-> -90]
    ELSE [axis |-> "none", deg |-> 0]

\* the loaded statue of section i with the extents size0 it was measured with
\* and the corrective rotation it was given
MeasuredStatue(r, i, size) ==
    Statue(r, i) @@ [size |-> size, fix |-> UprightFix(size[1], size[2], size[3])]

\* the catch block: makeAbstractStatue() at (cx, 0, cz); the group carries its
\* own pedestal, and its body (0.5 m high) is centred at 0.6 + 0.1 + 0.25
Fallback(r, i) ==
    [type |-> "fallback", sec |-> i, x |-> SectionCx(r), y |-> 0,
     z |-> SectionCz(r), top |-> PedestalTop,
     bodyY |-> 600 + 100 + 250]


\* an await outside the try block: the rejection leaves the function
RejectionEscapes == FALSE

\* the await of loadStatueOBJ sits inside the try block, so a rejection of
\* the promise reaches the catch block
RejectionCaught == TRUE

\* a statue pass that sets up the pedestals of all sections in a first loop
\* and awaits the loads, one after the other, in a second one
StatueLoopPedestalsFirst(sc, i) ==
    IF i < Len(sections)
    THEN /\ scene'  = IF i = 0
                      THEN sc \o [k \in 1..Len(sections) |->
                                    Pedestal(sections[k], k - 1)]
                      ELSE sc
         /\ statI'  = i
         /\ statPc' = "loading"
         /\ load'   = "mtl"
    ELSE /\ scene'  = sc
         /\ statI'  = i
         /\ statPc' = "finished"
         /\ load'   = "none"

\* the head of one loop iteration, up to the await: pedestal, then the load
\* of the pack is requested.  `sc` is the scene so far, `i` the loop index.
StatueLoopFrom(sc, i) ==
    IF i < Len(sections)
    THEN /\ scene'  = Append(sc, Pedestal(sections[i + 1], i))
         /\ statI'  = i
         /\ statPc' = "loading"
         /\ load'   = "mtl"
    ELSE /\ scene'  = sc
         /\ statI'  = i
         /\ statPc' = "finished"
         /\ load'   = "none"

-----------------------------------------------------------------------------
(* buildGallery, step by step *)

UpTo(n) == [i \in 1..n |-> i]

InitCommon ==
    /\ pc = "walls"
    /\ wi = 1
    /\ segs = << >>
    /\ colliders = << >>
    /\ sections = << >>
    /\ idx = 0
    /\ si = 1
    /\ slot = 0
    /\ scene = << >>
    /\ statI = 0
    /\ statPc = "idle"
    /\ load = "none"
    /\ settled = << >>

\* buildGallery(scene, opts) with an artwork list of 0..MaxArt distinct works
Init ==
    /\ InitCommon
    /\ plan = GalleryPlan
    /\ \E n \in 0..MaxArt : frames = UpTo(n)

\* one call of addWallX / addWallZ, the recursive calls of the doorway split
\* included; `after` is where buildGallery continues after the last wall
AddWallStep(after) ==
    /\ pc = "walls"
    /\ wi <= Len(plan)
    /\ LET b == Built(plan[wi])
       IN /\ segs' = segs \o [k \in 1..Len(b) |-> b[k].seg]
          /\ colliders' = colliders \o [k \in 1..Len(b) |-> b[k].collider]
          /\ scene' = scene \o [k \in 1..Len(b) |-> b[k].mesh]
    /\ wi' = wi + 1
    /\ pc' = IF wi = Len(plan) THEN after ELSE "walls"
    /\ UNCHANGED <<plan, sections, frames, idx, si, slot>>
    /\ UNCHANGED statueVars

BuildWall == AddWallStep("sections")

\* sections.push(...) for the four rooms
BuildSections ==
    /\ pc = "sections"
    /\ sections' = SectionList
    /\ pc' = "statues"
    /\ UNCHANGED <<plan, wi, segs, colliders, frames, idx, si, slot, scene>>
    /\ UNCHANGED statueVars

\* a statue pass whose first load is rejected before the call returns: the
\* fallback of section 0 is added on the spot and the loop goes on to section 1
StartStatuesSettledAtOnce ==
    /\ pc = "statues"
    /\ statPc = "idle"
    /\ StatueLoopFrom(Append(Append(scene, Pedestal(sections[1], 0)),
                              Fallback(sections[1], 0)), 1)
    /\ settled' = <<"rejected">>
    /\ pc' = "hang"
    /\ UNCHANGED <<plan, wi, segs, colliders, sections, frames, idx, si, slot>>

\* void addStatuesAtSectionCenters(scene, sections): runs up to its first await
StartStatues ==
    /\ pc = "statues"
    /\ statPc = "idle"
    /\ StatueLoopFrom(scene, 0)
    /\ pc' = "hang"
    /\ UNCHANGED <<plan, wi, segs, colliders, sections, frames, idx, si, slot, settled>>


\* a slot loop that takes frames[idx++] before the corner check
HangRejectConsumes ==
    /\ pc = "hang"
    /\ si <= Len(segs)
    /\ idx < Len(frames)
    /\ slot < Count(segs[si])
    /\ HitWall(segs, segs[si], slot)
    /\ slot' = slot + 1
    /\ idx' = idx + 1
    /\ UNCHANGED <<pc, plan, wi, segs, colliders, sections, frames, si, scene>>
    /\ UNCHANGED statueVars

\* one iteration of the slot loop whose slot the corner check rejects
HangReject ==
    /\ pc = "hang"
    /\ si <= Len(segs)
    /\ idx < Len(frames)
    /\ slot < Count(segs[si])
    /\ HitWall(segs, segs[si], slot)
    /\ slot' = slot + 1
    /\ UNCHANGED <<pc, plan, wi, segs, colliders, sections, frames, idx, si, scene>>
    /\ UNCHANGED statueVars

\* one iteration of the slot loop that hangs frames[idx]
HangPlace ==
    /\ pc = "hang"
    /\ si <= Len(segs)
    /\ idx < Len(frames)
    /\ slot < Count(segs[si])
    /\ ~HitWall(segs, segs[si], slot)
    /\ scene' = Append(scene, NewFrame(frames[idx + 1], si, segs[si], slot))
    /\ idx' = NextIdx(idx)
    /\ slot' = slot + 1
    /\ UNCHANGED <<pc, plan, wi, segs, colliders, sections, frames, si>>
    /\ UNCHANGED statueVars

\* hangOnSegX / hangOnSegZ returns (usable <= 0, or all slots visited)
HangNextSeg ==
    /\ pc = "hang"
    /\ si <= Len(segs)
    /\ idx < Len(frames)
    /\ slot >= Count(segs[si])
    /\ si' = si + 1
    /\ slot' = 0
    /\ UNCHANGED <<pc, plan, wi, segs, colliders, sections, frames, idx, scene>>
    /\ UNCHANGED statueVars


\* the segment loop ends: no segment left, or the cursor is exhausted
HangFinish ==
    /\ pc = "hang"
    /\ (si > Len(segs) \/ idx >= Len(frames))
    /\ pc' = "done"
    /\ UNCHANGED <<plan, wi, segs, colliders, sections, frames, idx, si, slot, scene>>
    /\ UNCHANGED statueVars

-----------------------------------------------------------------------------
(* The loader callbacks, delivered after buildGallery has returned *)

\* number of loads rejected so far
Fails == Cardinality({j \in 1..Len(settled) : settled[j] = "rejected"})

\* mtl.load succeeded: materials.preload(), obj.load is requested
MtlLoaded ==
    /\ pc = "done"
    /\ statPc = "loading"
    /\ load = "mtl"
    /\ load' = "obj"
    /\ UNCHANGED <<scene, statI, statPc, settled>>
    /\ UNCHANGED buildVars

\* obj.load succeeded: resolve(root); the statue is added and the loop goes on
ObjLoaded ==
    /\ pc = "done"
    /\ statPc = "loading"
    /\ load = "obj"
    /\ StatueLoopFrom(Append(scene, Statue(sections[statI + 1], statI)), statI + 1)
    /\ settled' = Append(settled, "resolved")
    /\ UNCHANGED buildVars

\* reject(...) of the pending promise
Rejected ==
    /\ Fails < MaxFail
    /\ settled' = Append(settled, "rejected")
    /\ IF RejectionCaught
       THEN StatueLoopFrom(Append(scene, Fallback(sections[statI + 1], statI)),
                           statI + 1)
       ELSE /\ statPc' = "threw"
            /\ load' = "none"
            /\ UNCHANGED <<scene, statI>>
    /\ UNCHANGED buildVars

\* mtl.load failed
MtlFailed ==
    /\ pc = "done"
    /\ statPc = "loading"
    /\ load = "mtl"
    /\ Rejected

\* obj.load failed
ObjFailed ==
    /\ pc = "done"
    /\ statPc = "loading"
    /\ load = "obj"
    /\ Rejected

Next ==
    \/ BuildWall
    \/ BuildSections
    \/ StartStatues
    \/ HangReject
    \/ HangPlace
    \/ HangNextSeg
    \/ HangFinish
    \/ MtlLoaded
    \/ ObjLoaded
    \/ MtlFailed
    \/ ObjFailed

Spec == Init /\ [][Next]_vars

\* buildGallery from its call to its return.  It runs to completion: no loader
\* callback is delivered before it returns.
BuildNext ==
    \/ BuildWall
    \/ BuildSections
    \/ StartStatues
    \/ HangReject
    \/ HangPlace
    \/ HangNextSeg
    \/ HangFinish

BuildSpec == Init /\ [][BuildNext]_vars

-----------------------------------------------------------------------------
(* A statue load that never settles *)

\* neither the onLoad nor the onError callback of the pending load is ever
\* called: the promise of loadStatueOBJ stays pending and the await of the loop
\* never returns
LoadHangs ==
    /\ pc = "done"
    /\ statPc = "loading"
    /\ load \in {"mtl", "obj"}
    /\ load' = "hung"
    /\ UNCHANGED <<scene, statI, statPc, settled>>
    /\ UNCHANGED buildVars

HangNext ==
    \/ BuildWall
    \/ BuildSections
    \/ StartStatues
    \/ HangReject
    \/ HangPlace
    \/ HangNextSeg
    \/ HangFinish
    \/ MtlLoaded
    \/ ObjLoaded
    \/ MtlFailed
    \/ ObjFailed
    \/ LoadHangs

HangSpec == Init /\ [][HangNext]_vars

-----------------------------------------------------------------------------
(* addStatuesAtSectionCenters on a short section list, with measured statues *)

MaxStatSections == 2
MaxExtent == 3

\* bounding box sizes (x, y, z) of a loaded model
Sizes == (1..MaxExtent) \X (1..MaxExtent) \X (1..MaxExtent)

\* the call of addStatuesAtSectionCenters(scene, sections) by a caller that
\* builds no wall and hangs no artwork
UprightInit ==
    /\ pc = "statues"
    /\ plan = << >>
    /\ wi = 1
    /\ segs = << >>
    /\ colliders = << >>
    /\ \E n \in 1..MaxStatSections : sections = SubSeq(SectionList, 1, n)
    /\ frames = << >>
    /\ idx = 0
    /\ si = 1
    /\ slot = 0
    /\ scene = << >>
    /\ statI = 0
    /\ statPc = "idle"
    /\ load = "none"
    /\ settled = << >>

\* obj.load succeeded with a model of some size: the statue is measured,
\* turned upright, seated and added, and the loop goes on
ObjLoadedMeasured ==
    /\ pc = "done"
    /\ statPc = "loading"
    /\ load = "obj"
    /\ \E size \in Sizes :
         StatueLoopFrom(Append(scene, MeasuredStatue(sections[statI + 1], statI, size)),
                        statI + 1)
    /\ settled' = Append(settled, "resolved")
    /\ UNCHANGED buildVars

UprightNext ==
    \/ StartStatues
    \/ HangFinish
    \/ MtlLoaded
    \/ ObjLoadedMeasured
    \/ MtlFailed
    \/ ObjFailed

UprightSpec == UprightInit /\ [][UprightNext]_vars

-----------------------------------------------------------------------------
(* addWallX / addWallZ and the hanging pass applied to arbitrary walls *)

\* spans (lo, hi, leaveDoorAt) around 0: with and without a doorway, shorter
\* and longer than the doorway and than the hanging margins, the doorway
\* centred or next to one end of the span
UnitSpans ==
    { <<-10000, 10000, NoDoor>>, <<-7500, 7500, NoDoor>>,
      <<-1705, 1705, NoDoor>>,   <<-1700, 1700, NoDoor>>,
      <<-10000, 10000, <<0>> >>, <<-1520, 1520, <<0>> >>,
      <<-1510, 1510, <<0>> >>,   <<-1505, 1505, <<0>> >>,
      <<-1500, 1500, <<0>> >>,   <<-1000, 1000, <<0>> >>,
      <<-10000, 10000, <<8495>> >>, <<-10000, 10000, <<-8480>> >> }

UnitCalls ==
    { Call(fn, c, sp[1], sp[2], n, sp[3], "none", FALSE) :
        fn \in {"addWallX", "addWallZ"}, c \in {-10000, 0},
        n \in {1, -1}, sp \in UnitSpans }

\* one wall, or two walls of different orientation
UnitPlans ==
    { <<a>> : a \in UnitCalls }
    \cup { <<p[1], p[2]>> : p \in {q \in UnitCalls \X UnitCalls : q[1].fn # q[2].fn} }

UnitInit ==
    /\ InitCommon
    /\ plan \in UnitPlans
    /\ \E n \in 0..MaxUnitArt : frames = UpTo(n)

\* a wall call followed, after the last one, by the hanging pass
ApplyWall == AddWallStep("hang")

UnitNext ==
    \/ ApplyWall
    \/ HangReject
    \/ HangPlace
    \/ HangNextSeg
    \/ HangFinish

UnitSpec == UnitInit /\ [][UnitNext]_vars

-----------------------------------------------------------------------------
(* The image loads of the frames, on walls of 11 m that cross *)

MaxFrameArt == 3

FrameCalls ==
    { Call(fn, 0, -5500, 5500, n, NoDoor, "none", FALSE) :
        fn \in {"addWallX", "addWallZ"}, n \in {1, -1} }

FramePlans ==
    { <<p[1], p[2]>> : p \in {q \in FrameCalls \X FrameCalls : q[1].fn # q[2].fn} }

FrameInit ==
    /\ InitCommon
    /\ plan \in FramePlans
    /\ \E n \in 0..MaxFrameArt : frames = UpTo(n)

\* the frames of the scene whose image request has not called back
PendingImages ==
    {k \in 1..Len(scene) : scene[k].type = "frame" /\ scene[k].image = "pending"}

\* onLoad of loader.load: imgMat.map = t
ImageLoaded ==
    /\ pc = "done"
    /\ \E k \in PendingImages :
         scene' = [scene EXCEPT ![k] = [@ EXCEPT !.image = "loaded", !.map = "image"]]
    /\ UNCHANGED <<pc, plan, wi, segs, colliders, sections, frames, idx, si, slot>>
    /\ UNCHANGED statueVars

\* onError of loader.load: console.warn('Failed to load', ...) and nothing else
ImageFailed ==
    /\ pc = "done"
    /\ \E k \in PendingImages :
         scene' = [scene EXCEPT ![k] = [@ EXCEPT !.image = "failed"]]
    /\ UNCHANGED <<pc, plan, wi, segs, colliders, sections, frames, idx, si, slot>>
    /\ UNCHANGED statueVars

FrameNext ==
    \/ ApplyWall
    \/ HangReject
    \/ HangPlace
    \/ HangNextSeg
    \/ HangFinish
    \/ ImageLoaded
    \/ ImageFailed

FrameSpec == FrameInit /\ [][FrameNext]_vars

-----------------------------------------------------------------------------
(* Properties of the painting pass *)

\* the frames in the scene, in the order they were added
Frames == SelectSeq(scene, LAMBDA o : o.type = "frame")

Min(a, b) == IF a < b THEN a ELSE b

\* along-wall and cross-wall coordinate of a frame, read off the frame itself:
\* a frame turned by 0 or 180 degrees hangs on an X wall
FrameOnX(f)    == f.rot \in {0, 180}
FrameAlong(f)  == IF FrameOnX(f) THEN f.x ELSE f.z
FrameAcross(f) == IF FrameOnX(f) THEN f.z ELSE f.x

\* (segment, slot) of frame a comes before that of frame b
SlotBefore(a, b) == a.seg < b.seg \/ (a.seg = b.seg /\ a.slot < b.slot)

\* C1: the k-th frame placed carries the k-th artwork of the list, frames are
\* placed in increasing (segment, slot) order, and the cursor always equals the
\* number of frames placed, so a rejected slot consumes no artwork.
C1_InputOrder ==
    LET fs == Frames
    IN /\ Len(fs) = idx
       /\ idx <= Len(frames)
       /\ \A k \in 1..Len(fs) : fs[k].meta = frames[k]
       /\ \A k \in 1..(Len(fs) - 1) : SlotBefore(fs[k], fs[k + 1])

\* a frame hangs on the slot right after a rejected one, carrying the artwork
\* that follows the one on the slot before the rejected one
C1_Witness ==
    LET fs == Frames
    IN \E k \in 2..Len(fs) :
        /\ fs[k].seg = fs[k - 1].seg
        /\ fs[k].slot = fs[k - 1].slot + 2
        /\ HitWall(segs, segs[fs[k].seg], fs[k].slot - 1)
        /\ fs[k].meta = fs[k - 1].meta + 1

\* the slots of segment s that pass the corner check
FreeSlots(all, s) ==
    {i \in 0..(Count(all[s]) - 1) : ~HitWall(all, all[s], i)}

RECURSIVE CapacityUpTo(_, _)
CapacityUpTo(all, s) ==
    IF s = 0 THEN 0
    ELSE Cardinality(FreeSlots(all, s)) + CapacityUpTo(all, s - 1)

\* total wall capacity: the slots of all segments that pass the corner check
Capacity(all) == CapacityUpTo(all, Len(all))

\* C2: once the walls stand, the number of frames never exceeds
\* min(capacity, artwork count); when the pass is over it equals that minimum,
\* and a pass that ran out of artworks stopped right behind the slot of the
\* last frame, leaving every later slot empty.
C2_NoOverPlacement ==
    pc \in {"hang", "done"} =>
        LET fs  == Frames
            cap == Capacity(segs)
        IN /\ Len(fs) <= Min(cap, Len(frames))
           /\ pc = "done" =>
                /\ Len(fs) = Min(cap, Len(frames))
                /\ (Len(frames) > 0 /\ Len(frames) <= cap) =>
                     /\ si = fs[Len(fs)].seg
                     /\ slot = fs[Len(fs)].slot + 1

\* three artworks on walls with room for ten or more: three frames, and the
\* pass is over
C2_Witness ==
    /\ pc = "done"
    /\ Len(frames) = 3
    /\ Capacity(segs) >= 10
    /\ Len(Frames) = 3
    /\ si <= Len(segs)

\* M + W/2 with M = 0.8 and W = 1.8
EdgeClear == 800 + 1800 \div 2

\* C3: a frame on a segment of length L hangs between M + W/2 and
\* L - (M + W/2) from the start of the segment, and a segment with
\* L <= 2 * (M + W/2) carries no frame.
C3_Margin ==
    LET fs == Frames
    IN \A k \in 1..Len(fs) :
        LET f   == fs[k]
            seg == segs[f.seg]
            L   == SegHi(seg) - SegLo(seg)
            rel == FrameAlong(f) - SegLo(seg)
        IN /\ EdgeClear <= rel
           /\ rel <= L - EdgeClear
           /\ L > 2 * EdgeClear

\* a frame hangs on a wall while a wall no longer than 2 * (M + W/2), visited
\* before it, stayed empty
C3_Witness ==
    LET fs == Frames
    IN \E k \in 1..Len(fs) :
        /\ fs[k].seg = 2
        /\ SegHi(segs[1]) - SegLo(segs[1]) = 2 * EdgeClear
        /\ fs[1].seg = 2
        /\ FrameAlong(fs[k]) - SegLo(segs[2]) = EdgeClear

\* C4: no frame lies within 0.9 + 0.05 (along its wall) of the fixed
\* coordinate of a perpendicular segment whose extent, widened by 0.05, covers
\* the frame's cross-wall coordinate.
C4_CornerExclusion ==
    LET fs == Frames
    IN \A k \in 1..Len(fs) : \A s \in 1..Len(segs) :
        LET f == fs[k]
            o == segs[s]
        IN IF FrameOnX(f)
           THEN o.kind = "Z" =>
                  ~ /\ Abs(o.x - f.x) < 900 + 50
                    /\ o.z0 - 50 <= f.z
                    /\ f.z <= o.z1 + 50
           ELSE o.kind = "X" =>
                  ~ /\ Abs(o.z - f.z) < 900 + 50
                    /\ o.x0 - 50 <= f.x
                    /\ f.x <= o.x1 + 50

\* a slot next to a perpendicular wall was passed over and the next slot of
\* the segment carries a frame
C4_Witness ==
    LET fs == Frames
    IN \E k \in 1..Len(fs) :
        /\ fs[k].slot > 0
        /\ HitWall(segs, segs[fs[k].seg], fs[k].slot - 1)
        /\ \A j \in 1..Len(fs) :
             ~(fs[j].seg = fs[k].seg /\ fs[j].slot = fs[k].slot - 1)

-----------------------------------------------------------------------------
(* Properties of the wall builder and of the sections *)

\* the next wall call has a doorway centred on its span
CentredDoorCall ==
    /\ pc = "walls"
    /\ wi <= Len(plan)
    /\ plan[wi].leaveDoorAt # << >>
    /\ 2 * plan[wi].leaveDoorAt[1] = plan[wi].lo + plan[wi].hi

\* the step adds exactly n segments, each of length len (n = 0: none)
AddsSegments(n, len) ==
    /\ Len(segs') = Len(segs) + n
    /\ \A k \in (Len(segs) + 1)..Len(segs') :
         SegHi(segs'[k]) - SegLo(segs'[k]) = len

\* C5 as stated: a span of length L with a centred doorway of width D = 3
\* gives two segments of (L - D) / 2 whenever D < L and none whenever D >= L.
C5_SplitAsStated ==
    [][CentredDoorCall =>
         LET L == plan[wi].hi - plan[wi].lo
         IN IF 3000 < L
            THEN AddsSegments(2, (L - 3000) \div 2)
            ELSE AddsSegments(0, 0)]_vars

\* C5 amended: two segments of (L - D) / 2 whenever (L - D) / 2 > 0.01, none
\* whenever (L - D) / 2 <= 0.01, which includes D >= L; never one segment.
C5_DoorwaySplit ==
    [][CentredDoorCall =>
         LET L == plan[wi].hi - plan[wi].lo
         IN IF L - 3000 > 2 * 10
            THEN AddsSegments(2, (L - 3000) \div 2)
            ELSE AddsSegments(0, 0)]_vars

\* a 3.01 m span with a centred doorway left no segment, and a 20 m span with
\* a centred doorway left two segments of 8.5 m
C5_Witness ==
    /\ Len(plan) = 2
    /\ wi = 3
    /\ plan[1].leaveDoorAt = <<0>> /\ plan[1].hi - plan[1].lo = 3010
    /\ plan[2].leaveDoorAt = <<0>> /\ plan[2].hi - plan[2].lo = 20000
    /\ Len(segs) = 2
    /\ \A k \in 1..2 : SegHi(segs[k]) - SegLo(segs[k]) = 8500

\* the coordinates at which the section rectangles of a room are cut: the
\* edges of its rectangles that are not edges of the room
CutsX(room) ==
    {c \in UNION {{sections[k].x0, sections[k].x1} :
                    k \in {j \in 1..Len(sections) : sections[j].room = room}} :
        c \notin {RoomRect(room).x0, RoomRect(room).x1}}
CutsZ(room) ==
    {c \in UNION {{sections[k].z0, sections[k].z1} :
                    k \in {j \in 1..Len(sections) : sections[j].room = room}} :
        c \notin {RoomRect(room).z0, RoomRect(room).z1}}

\* the coordinates at which the interior dividers of a room were built: a
\* divider built by addWallZ stands at an x, one built by addWallX at a z
DividersX(room) ==
    {plan[k].c : k \in {j \in 1..(wi - 1) :
        plan[j].room = room /\ plan[j].divider /\ plan[j].fn = "addWallZ"}}
DividersZ(room) ==
    {plan[k].c : k \in {j \in 1..(wi - 1) :
        plan[j].room = room /\ plan[j].divider /\ plan[j].fn = "addWallX"}}

\* C6: once walls and sections are built, in every room each coordinate at
\* which the sections are cut is the coordinate of a divider of that room on
\* the same axis.
C6_SectionsFollowDividers ==
    Len(sections) > 0 =>
        \A room \in Rooms :
            /\ CutsX(room) \subseteq DividersX(room)
            /\ CutsZ(room) \subseteq DividersZ(room)

-----------------------------------------------------------------------------
(* Overlap of frames *)

\* footprint of a frame in the floor plane: its width along its wall
FootMinX(f) == IF FrameOnX(f) THEN f.x - f.width \div 2 ELSE f.x
FootMaxX(f) == IF FrameOnX(f) THEN f.x + f.width \div 2 ELSE f.x
FootMinZ(f) == IF FrameOnX(f) THEN f.z ELSE f.z - f.width \div 2
FootMaxZ(f) == IF FrameOnX(f) THEN f.z ELSE f.z + f.width \div 2

FootprintsMeet(a, b) ==
    /\ FootMinX(a) <= FootMaxX(b) /\ FootMinX(b) <= FootMaxX(a)
    /\ FootMinZ(a) <= FootMaxZ(b) /\ FootMinZ(b) <= FootMaxZ(a)

\* C7: the footprints of any two frames are disjoint, and two frames on the
\* same segment are at least SPACING = 3.6 apart, centre to centre.
C7_NoOverlap ==
    LET fs == Frames
    IN \A i \in 1..Len(fs) : \A j \in (i + 1)..Len(fs) :
        /\ ~FootprintsMeet(fs[i], fs[j])
        /\ fs[i].seg = fs[j].seg =>
             Abs(FrameAlong(fs[i]) - FrameAlong(fs[j])) >= 3600

\* two frames hang on neighbouring slots of one segment, 3.7 apart, and a
\* frame hangs on a perpendicular wall
C7_Witness ==
    LET fs == Frames
    IN /\ \E i \in 1..(Len(fs) - 1) :
            /\ fs[i].seg = fs[i + 1].seg
            /\ FrameAlong(fs[i + 1]) - FrameAlong(fs[i]) = 3700
       /\ \E i \in 1..Len(fs) : \E j \in 1..Len(fs) :
            FrameOnX(fs[i]) /\ ~FrameOnX(fs[j])

-----------------------------------------------------------------------------
(* The slot formula on a 20 m wall *)

\* the doorway-free X segments spanning x in [-10, 10]
TwentyMetreSegs ==
    {s \in 1..Len(segs) :
        segs[s].kind = "X" /\ segs[s].x0 = -10000 /\ segs[s].x1 = 10000}

\* C9 as stated: usable = 16.6, five slots, evenly spaced between x = -8.7
\* and x = 8.7.
C9_SlotsAsStated ==
    LET fs == Frames
    IN \A s \in TwentyMetreSegs :
        /\ Usable(segs[s]) = 16600
        /\ Count(segs[s]) = 5
        /\ \A k \in 1..Len(fs) :
             fs[k].seg = s =>
                /\ fs[k].slot \in 0..4
                /\ 4 * fs[k].x = 4 * (-8700) + fs[k].slot * (8700 + 8700)

\* C9 amended: usable = 16.6, five slots, evenly spaced (4.15 apart) between
\* x = -8.3 and x = 8.3.
C9_SlotScenario ==
    LET fs == Frames
    IN \A s \in TwentyMetreSegs :
        /\ Usable(segs[s]) = 16600
        /\ Count(segs[s]) = 5
        /\ \A k \in 1..Len(fs) :
             fs[k].seg = s =>
                /\ fs[k].slot \in 0..4
                /\ 4 * fs[k].x = 4 * (-8300) + fs[k].slot * (8300 + 8300)

\* all five slots of such a segment carry a frame, the last one at x = 8.3
C9_Witness ==
    LET fs == Frames
    IN /\ Len(fs) = 5
       /\ 1 \in TwentyMetreSegs
       /\ \A k \in 1..5 : fs[k].seg = 1 /\ fs[k].slot = k - 1
       /\ fs[1].x = -8300
       /\ fs[5].x = 8300

-----------------------------------------------------------------------------
(* Statue load failure *)

\* pedestals, statues and fallbacks in the scene
StatueObjects ==
    SelectSeq(scene, LAMBDA o : o.type \in {"pedestal", "statue", "fallback"})

\* the objects of type t that `objs` holds for section i (0-based)
OfSection(objs, t, i) ==
    {k \in 1..Len(objs) : objs[k].type = t /\ objs[k].sec = i}

\* object o stands at the centre of rectangle r
AtCentre(o, r) == 2 * o.x = r.x0 + r.x1 /\ 2 * o.z = r.z0 + r.z1

\* C10: addStatuesAtSectionCenters never throws.  Every section whose load
\* settled has one pedestal at its centre; if the load was rejected it has one
\* fallback at that centre, standing on the floor like the pedestal so that
\* its pedestal top is at the pedestal's height, and no statue; if the load
\* resolved it has one statue at that centre, seated on the pedestal top, and
\* no fallback.  After a settled load the loop has moved on: the next section
\* has its pedestal and a pending load, or all sections are done.
C10_FallbackOnFailure ==
    LET objs == StatueObjects
    IN /\ statPc \in {"idle", "loading", "finished"}
       /\ statPc = "finished" => Len(settled) = Len(sections)
       /\ statPc = "loading" =>
            /\ Len(settled) = statI
            /\ statI < Len(sections)
            /\ load \in {"mtl", "obj"}
            /\ Cardinality(OfSection(objs, "pedestal", statI)) = 1
            /\ OfSection(objs, "statue", statI) = {}
            /\ OfSection(objs, "fallback", statI) = {}
       /\ \A j \in 1..Len(settled) :
            LET r    == sections[j]
                peds == OfSection(objs, "pedestal", j - 1)
                sts  == OfSection(objs, "statue", j - 1)
                fbs  == OfSection(objs, "fallback", j - 1)
            IN /\ Cardinality(peds) = 1
               /\ \A p \in peds : AtCentre(objs[p], r) /\ objs[p].y = 0
               /\ settled[j] = "rejected" =>
                    /\ Cardinality(fbs) = 1
                    /\ sts = {}
                    /\ \A f \in fbs : \A p \in peds :
                         /\ AtCentre(objs[f], r)
                         /\ objs[f].y = objs[p].y
                         /\ objs[f].top = objs[p].top
               /\ settled[j] = "resolved" =>
                    /\ Cardinality(sts) = 1
                    /\ fbs = {}
                    /\ \A t \in sts : \A p \in peds :
                         AtCentre(objs[t], r) /\ objs[t].seat = objs[p].top

\* all twelve sections are done; the loads of two sections were rejected, one
\* of them the third section, and the section after it has its statue
C10_Witness ==
    LET objs == StatueObjects
    IN /\ statPc = "finished"
       /\ Len(settled) = 12
       /\ settled[3] = "rejected"
       /\ settled[4] = "resolved"
       /\ settled[12] = "rejected"
       /\ OfSection(objs, "fallback", 2) # {}
       /\ OfSection(objs, "statue", 3) # {}

-----------------------------------------------------------------------------
(* A hung statue load *)

\* section i (0-based) has its pedestal and its statue or its fallback
Served(objs, i) ==
    /\ OfSection(objs, "pedestal", i) # {}
    /\ OfSection(objs, "statue", i) \cup OfSection(objs, "fallback", i) # {}

\* C11: a statue load that hangs holds back only its own section.  Once the
\* load of a section hangs and nothing more can happen, that section shows its
\* pedestal alone, and every other section has its pedestal and its statue or
\* fallback (what a section is to receive eventually it has received by the
\* time no step is left to take).
C11_HungLoadIsolated ==
    (load = "hung" /\ ~ENABLED HangNext) =>
        LET objs == StatueObjects
        IN /\ pc = "done"
           /\ OfSection(objs, "pedestal", statI) # {}
           /\ \A j \in 0..(Len(sections) - 1) : j # statI => Served(objs, j)

-----------------------------------------------------------------------------
(* Image load failure *)

\* C12: a frame whose image request failed shows the 'IMAGE MISSING' texture.
C12_MissingImageLabelled ==
    \A k \in 1..Len(scene) :
        (scene[k].type = "frame" /\ scene[k].image = "failed") =>
            scene[k].map = FallbackTexture

-----------------------------------------------------------------------------
(* Order of layout computation and object creation *)

\* the objects of type t in the scene
OfType(t) == {k \in 1..Len(scene) : scene[k].type = t}

\* C13 as stated: nothing is added to the scene and no statue load is
\* requested until the layout computation (walls, sections, hanging pass) is
\* over.
C13_LayoutBeforeVisuals ==
    (Len(scene) > 0 \/ load # "none") => pc = "done"

\* C13: object creation is interleaved with the layout computation, and only
\* the results of loads wait for its end.  Every segment has its wall mesh as
\* soon as it is recorded and every artwork taken from the list has its frame;
\* during the hanging pass the pedestal of the first section stands and its
\* load is pending; until buildGallery has returned no load has settled, and
\* the scene holds no statue, no fallback and no pedestal of a later section.
C13_LoadResultsAfterLayout ==
    /\ Cardinality(OfType("wall")) = Len(segs)
    /\ Cardinality(OfType("frame")) = idx
    /\ pc = "hang" =>
         /\ load = "mtl"
         /\ \E k \in OfType("pedestal") : scene[k].sec = 0
    /\ pc # "done" =>
         /\ settled = << >>
         /\ OfType("statue") = {}
         /\ OfType("fallback") = {}
         /\ \A k \in OfType("pedestal") : scene[k].sec = 0

\* in the middle of the hanging pass: wall meshes, the first pedestal and some
\* frames are in the scene, the first statue load is pending, and slots are
\* still being computed
C13_Witness ==
    /\ pc = "hang"
    /\ idx = 30
    /\ idx < Len(frames)
    /\ si <= Len(segs)
    /\ Cardinality(OfType("wall")) = 30
    /\ Cardinality(OfType("frame")) = 30
    /\ Cardinality(OfType("pedestal")) = 1
    /\ load = "mtl"

-----------------------------------------------------------------------------
(* Colliders *)

\* collider c is the rectangle of segment s: it spans the segment along the
\* wall, is WALL_T thick across it, and has the segment's fixed coordinate in
\* the middle of its thickness
ColliderOf(c, s) ==
    IF s.kind = "X"
    THEN /\ c.minX = s.x0
         /\ c.maxX = s.x1
         /\ c.maxZ - c.minZ = WALL_T
         /\ 2 * s.z = c.minZ + c.maxZ
    ELSE /\ c.minZ = s.z0
         /\ c.maxZ = s.z1
         /\ c.maxX - c.minX = WALL_T
         /\ 2 * s.x = c.minX + c.maxX

\* C14: the colliders list has one rectangle per wall segment, in the order of
\* the segments, and colliders[i] is the rectangle of segs[i]; this holds after
\* every wall call, so also for the list buildGallery returns.
C14_ColliderPerSegment ==
    /\ Len(colliders) = Len(segs)
    /\ \A i \in 1..Len(segs) : ColliderOf(colliders[i], segs[i])

\* buildGallery has returned thirty colliders for its thirty segments, among
\* them walls facing each of the four directions
C14_Witness ==
    /\ pc = "done"
    /\ Len(colliders) = 30
    /\ Len(segs) = 30
    /\ \E i \in 1..30 : segs[i].kind = "X" /\ segs[i].nZ > 0
    /\ \E i \in 1..30 : segs[i].kind = "X" /\ segs[i].nZ < 0
    /\ \E i \in 1..30 : segs[i].kind = "Z" /\ segs[i].nX > 0
    /\ \E i \in 1..30 : segs[i].kind = "Z" /\ segs[i].nX < 0

-----------------------------------------------------------------------------
(* Sections and rooms *)

\* the indices of the sections of a room
SectionsOf(room) == {k \in 1..Len(sections) : sections[k].room = room}

RectArea(r) == (r.x1 - r.x0) * (r.z1 - r.z0)

\* rectangle a lies within rectangle b
RectWithin(a, b) ==
    /\ b.x0 <= a.x0
    /\ a.x1 <= b.x1
    /\ b.z0 <= a.z0
    /\ a.z1 <= b.z1

\* the interiors of rectangles a and b have a point in common
InteriorsMeet(a, b) ==
    /\ a.x0 < b.x1
    /\ b.x0 < a.x1
    /\ a.z0 < b.z1
    /\ b.z0 < a.z1

\* the total area of the sections of `room` among the first n sections
RECURSIVE AreaOfRoomUpTo(_, _)
AreaOfRoomUpTo(room, n) ==
    IF n = 0 THEN 0
    ELSE AreaOfRoomUpTo(room, n - 1)
         + (IF sections[n].room = room THEN RectArea(sections[n]) ELSE 0)

\* C15: once the sections are built, the sections of each of the four rooms
\* tile the room: each has x0 < x1 and z0 < z1, their interiors are pairwise
\* disjoint, and their union is the room rectangle (each lies within the room
\* and their areas add up to the room's area).
C15_SectionsTileRooms ==
    Len(sections) > 0 =>
        \A room \in Rooms :
            LET S == SectionsOf(room)
            IN /\ S # {}
               /\ \A k \in S :
                    /\ sections[k].x0 < sections[k].x1
                    /\ sections[k].z0 < sections[k].z1
                    /\ RectWithin(sections[k], RoomRect(room))
               /\ \A j \in S : \A k \in S :
                    j # k => ~InteriorsMeet(sections[j], sections[k])
               /\ AreaOfRoomUpTo(room, Len(sections)) = RectArea(RoomRect(room))

\* the twelve sections are built: four in the Atrium, three in the North and
\* in the West gallery, two in the East gallery
C15_Witness ==
    /\ pc = "done"
    /\ Len(sections) = 12
    /\ Cardinality(SectionsOf("Atrium")) = 4
    /\ Cardinality(SectionsOf("North")) = 3
    /\ Cardinality(SectionsOf("East")) = 2
    /\ Cardinality(SectionsOf("West")) = 3

-----------------------------------------------------------------------------
(* Extent of the segments *)

SegLen(seg) == SegHi(seg) - SegLo(seg)

\* the next wall call leaves a doorway
DoorCall ==
    /\ pc = "walls"
    /\ wi <= Len(plan)
    /\ plan[wi].leaveDoorAt # << >>

\* the segments the step appends that start at lo, resp. end at hi
NewSegsFrom(lo) ==
    {k \in (Len(segs) + 1)..Len(segs') : SegLo(segs'[k]) = lo}
NewSegsTo(hi) ==
    {k \in (Len(segs) + 1)..Len(segs') : SegHi(segs'[k]) = hi}

\* C16: every segment of the segment list has an extent above zero.  A wall
\* call with a doorway emits the flank on either side only when the doorway
\* edge is more than 0.01 away from that end of the wall, the flank then
\* reaching from the wall end to the doorway edge; it emits nothing else, so
\* no flank is 0.01 long or shorter.
C16_NoSliver ==
    [][/\ \A k \in 1..Len(segs') : SegLen(segs'[k]) > 0
       /\ DoorCall =>
            LET lo == plan[wi].lo
                hi == plan[wi].hi
                d0 == plan[wi].leaveDoorAt[1] - DOOR_W \div 2
                d1 == plan[wi].leaveDoorAt[1] + DOOR_W \div 2
                added == (Len(segs) + 1)..Len(segs')
            IN /\ \A k \in added : SegLen(segs'[k]) > 10
               /\ \A k \in added :
                    \/ SegLo(segs'[k]) = lo /\ SegHi(segs'[k]) = d0
                    \/ SegLo(segs'[k]) = d1 /\ SegHi(segs'[k]) = hi
               /\ Cardinality(NewSegsFrom(lo)) = (IF d0 - lo > 10 THEN 1 ELSE 0)
               /\ Cardinality(NewSegsTo(hi)) = (IF hi - d1 > 10 THEN 1 ELSE 0)
      ]_vars

\* a 20 m wall whose doorway ends 0.005 short of the wall end got its low
\* flank only, and a 3.04 m wall with a centred doorway got two flanks of 0.02
C16_Witness ==
    /\ Len(plan) = 2
    /\ wi = 3
    /\ plan[1].leaveDoorAt = <<8495>>
    /\ plan[2].leaveDoorAt = <<0>> /\ plan[2].hi - plan[2].lo = 3040
    /\ Len(segs) = 3
    /\ SegLo(segs[1]) = -10000 /\ SegHi(segs[1]) = 6995
    /\ SegLen(segs[2]) = 20
    /\ SegLen(segs[3]) = 20

-----------------------------------------------------------------------------
(* Upright correction of loaded statues *)

NoFix == [axis |-> "none", deg |-> 0]

\* C17: a loaded statue whose bounding box is longest along X was turned by
\* +90 degrees about Z, one longest along Z by -90 degrees about X, and one
\* longest along Y was not turned.
C17_UprightCorrection ==
    \A k \in 1..Len(scene) :
        scene[k].type = "statue" =>
            LET sx == scene[k].size[1]
                sy == scene[k].size[2]
                sz == scene[k].size[3]
            IN /\ (sx > sy /\ sx > sz) => scene[k].fix = [axis |-> "Z", deg |-> 90]
               /\ (sz > sx /\ sz > sy) => scene[k].fix = [axis |-> "X", deg |-> -90]
               /\ (sy > sx /\ sy > sz) => scene[k].fix = NoFix

\* two statues stand in the scene: the first lay along X and was turned about
\* Z, the second lay along Z and was turned about X
C17_Witness ==
    /\ statPc = "finished"
    /\ Len(sections) = 2
    /\ \E j \in 1..Len(scene) : \E k \in 1..Len(scene) :
         /\ scene[j].type = "statue" /\ scene[j].sec = 0
         /\ scene[j].size = <<3, 2, 1>> /\ scene[j].fix.axis = "Z"
         /\ scene[k].type = "statue" /\ scene[k].sec = 1
         /\ scene[k].size = <<1, 2, 3>> /\ scene[k].fix.axis = "X"

-----------------------------------------------------------------------------
(* Pedestals and walls *)

\* the square footprint of pedestal p and the collider rectangle c have an
\* inner point in common (coordinates doubled to keep the half width exact)
PedestalInWall(p, c) ==
    /\ 2 * p.x - p.w < 2 * c.maxX
    /\ 2 * c.minX < 2 * p.x + p.w
    /\ 2 * p.z - p.w < 2 * c.maxZ
    /\ 2 * c.minZ < 2 * p.z + p.w

\* C18: every pedestal stands at the centre of its section, and its footprint
\* meets no wall collider.
C18_PedestalsClearOfWalls ==
    \A k \in OfType("pedestal") :
        /\ AtCentre(scene[k], sections[scene[k].sec + 1])
        /\ \A j \in 1..Len(colliders) : ~PedestalInWall(scene[k], colliders[j])

-----------------------------------------------------------------------------
(* One statue load at a time *)

\* C19: the sections are handled strictly in index order with at most one
\* load in flight.  The pedestals, statues and fallbacks of the scene
\* alternate, in the order they were added: the pedestal of section 0, the
\* statue or fallback of section 0, the pedestal of section 1, and so on, so
\* the pedestal of a section comes only after the load of the section before
\* has settled, and a settled section has one statue or one fallback, never
\* both.  A load is pending exactly while the loop is suspended, and then the
\* last pedestal is the only one without statue or fallback.
C19_OneLoadAtATime ==
    LET objs == StatueObjects
    IN /\ \A k \in 1..Len(objs) :
            IF k % 2 = 1
            THEN objs[k].type = "pedestal" /\ objs[k].sec = (k - 1) \div 2
            ELSE /\ objs[k].type \in {"statue", "fallback"}
                 /\ objs[k].sec = k \div 2 - 1
                 /\ objs[k].type = "statue" <=> settled[k \div 2] = "resolved"
       /\ Len(objs) = 2 * Len(settled) + (IF load \in {"mtl", "obj"} THEN 1 ELSE 0)
       /\ load \in {"mtl", "obj"} <=> statPc = "loading"
       /\ statPc = "loading" => statI = Len(settled)

\* five loads have settled, rejected and resolved ones among them; the sixth
\* section has its pedestal and its load is pending, and the seventh section
\* has nothing yet
C19_Witness ==
    LET objs == StatueObjects
    IN /\ statPc = "loading"
       /\ load = "obj"
       /\ statI = 5
       /\ settled = <<"resolved", "rejected", "resolved", "resolved", "rejected">>
       /\ Len(objs) = 11
       /\ objs[11].type = "pedestal"
       /\ objs[11].sec = 5
       /\ OfSection(objs, "pedestal", 6) = {}

=============================================================================
